---- MODULE Spec2Model ----
(***************************************************************************)
(* Model of scanner-winning: the daily gainer scanner (scanner_bot.py) and *)
(* the per-day simulated portfolio ledger (portfolio_manager.py).          *)
(*                                                                         *)
(* Fixed-point units (the program works on floats rounded to decimals):    *)
(*   prices and quotes      1 = $0.0001                                    *)
(*   stored money columns   1 = $0.01    (round(x, 2))                     *)
(*   stored Quantity        1 = 0.0001 share (round(x, 4))                 *)
(*   percentages            1 = 0.01 %   (round(x, 2))                     *)
(***************************************************************************)
EXTENDS Integers, Sequences, FiniteSets, TLC

VARIABLES
    files,    \* Portfolios/Portfolio_<date>.csv: date -> rows as stored
    present,  \* the dates whose ledger file exists
    corrupt,  \* the dates whose ledger file cannot be read
    today,    \* datetime.now(), as a day number
    scans,    \* the dates with a Daily_Scans/Scan_<date>.csv snapshot
    df,       \* the frame of the most recent main() call
    report,   \* the totals printed by the most recent operation
    last,     \* what the most recent operation did
    hist,     \* what yfinance serves for the ticker scanned under SpecMetrics
    runs      \* the two concurrent runs of SpecConcurrent: position and locals

vars ==
    <<files, present, corrupt, today, scans, df, report, last, hist, runs>>

(***************************************************************************)
(* Bounds of the model.                                                    *)
(***************************************************************************)
MaxDay == 2
MaxRows == 2
MaxEntries == 2
MaxBars == 22

Dates == 1..MaxDay

(***************************************************************************)
(* Shapes of the data.  Records are written with their fields in the order *)
(* of these declarations throughout.                                       *)
(***************************************************************************)
\* A row of a ledger file (the columns of Portfolio_<date>.csv).
LedgerRow ==
    [Date : Dates, Symbol : STRING, List : STRING, EntryPrice : Int,
     Quantity : Int, InitialValue : Int, CurrentPrice : Int,
     CurrentValue : Int, ReturnPct : Int]

\* A row of a scan frame, with the columns the model needs.  Price is <<>>
\* (NaN) or <<p>>; RSI is <<>> ('N/A') or <<v>>; the returns are in 0.01 %.
ScanRow ==
    [Symbol : STRING, List : STRING, Price : Seq(Int), Monthly : Int,
     Year52W : Int, Weekly : Int, YTD : Int, RSI : Seq(Int)]

\* What the most recent operation did.
LastOp ==
    [op : STRING, exit : STRING, addCalled : BOOLEAN, addRaised : BOOLEAN,
     added : Nat, updateCalled : BOOLEAN, written : SUBSET Dates,
     failed : SUBSET (Dates \X Nat), steps : Seq(STRING)]

\* The outcome of one add_new_positions call.
AddResult ==
    [added : Nat, raised : BOOLEAN, rows : Seq(LedgerRow), saved : BOOLEAN]

\* The outcome of one quote fetch.
QuoteResult == [kind : {"price", "none", "exc"}, v : Int]

\* The totals printed by update_portfolio_values.
Totals == [printed : BOOLEAN, invested : Int, value : Int, ret : Int]

\* What yfinance serves for one ticker: hist['Close'], the first Open of the
\* current year (<<>> when hist has no bar of this year), the current price
\* of ticker.info (0 when missing), and whether a fetch raises.
History ==
    [Close : Seq(Int), Open : Seq(Int), price : Int, raises : BOOLEAN]

\* A run of add_new_positions(frame) or update_portfolio_values() (with the
\* quotes it will fetch) that shares the ledger with another run: where it
\* stands, the frame it loaded from the day's file and the rows it saved.
Run ==
    [pc : {"idle", "start", "loaded", "done"}, run : {"add", "update"},
     frame : Seq(ScanRow), quotes : [STRING -> QuoteResult],
     portfolio : Seq(LedgerRow), saved : Seq(LedgerRow)]

(***************************************************************************)
(* Program constants.                                                      *)
(***************************************************************************)
CAPITAL_PER_TRADE == 1000

focus_lists == {"Simmering Growth", "Rockets", "Turnarounds"}

(***************************************************************************)
(* Exact decimal arithmetic.  a * b is split so that no intermediate       *)
(* value leaves the 32-bit range of the checker.                           *)
(***************************************************************************)
RECURSIVE MulDivMod(_, _, _)
\* <<q, r>> with a * b = q * d + r and 0 <= r < d, for a, b >= 0 and d > 0.
MulDivMod(a, b, d) ==
    IF b = 0 THEN <<0, 0>>
    ELSE LET p == MulDivMod(a, b \div 10, d)
             t == 10 * p[2] + (a % d) * (b % 10)
         IN  <<10 * p[1] + (a \div d) * (b % 10) + t \div d, t % d>>

\* q + r/d rounded to the nearest integer, ties to even (Python's round()).
RoundHalfEven(q, r, d) ==
    IF 2 * r > d THEN q + 1
    ELSE IF 2 * r < d THEN q
    ELSE IF q % 2 = 0 THEN q ELSE q + 1

\* round(a * b / d) for a, b >= 0, d > 0.
RoundMulDiv(a, b, d) ==
    LET p == MulDivMod(a, b, d) IN RoundHalfEven(p[1], p[2], d)

\* round(n * b / d) for any integer n, b >= 0, d > 0.
SignedRoundMulDiv(n, b, d) ==
    IF n >= 0 THEN RoundMulDiv(n, b, d) ELSE 0 - RoundMulDiv(0 - n, b, d)

RECURSIVE SumOver(_, _)
\* Series.sum() of column f of a frame.
SumOver(rows, f) ==
    IF rows = <<>> THEN 0 ELSE SumOver(Tail(rows), f) + Head(rows)[f]

(***************************************************************************)
(* CSV round trip of the Symbol column.  pandas.read_csv parses the        *)
(* strings "NA" and "" as a missing value (NaN); DataFrame.to_csv writes a *)
(* missing value as "".  NaN compares unequal to every symbol.             *)
(***************************************************************************)
NaNSym == "nan"

read_csv_symbol(text) == IF text \in {"NA", ""} THEN NaNSym ELSE text

to_csv_symbol(sym) == IF sym = NaNSym THEN "" ELSE sym

read_csv(rows) ==
    [i \in DOMAIN rows |-> [rows[i] EXCEPT !.Symbol = read_csv_symbol(@)]]

to_csv(frame) ==
    [i \in DOMAIN frame |-> [frame[i] EXCEPT !.Symbol = to_csv_symbol(@)]]

\* portfolio['Symbol'] == symbol, element-wise.
SymbolEq(a, b) == a # NaNSym /\ b # NaNSym /\ a = b


(***************************************************************************)
(* Values that may be missing.  A scan price is <<>> (NaN) or <<p>>.       *)
(***************************************************************************)
isna(price) == price = <<>>

Round2(price) == RoundHalfEven(price \div 100, price % 100, 100)

(***************************************************************************)
(* portfolio_manager.add_new_positions                                     *)
(***************************************************************************)
\* quantity = CAPITAL_PER_TRADE / price, stored as round(quantity, 4)
QuantityOf(price) == RoundMulDiv(CAPITAL_PER_TRADE * 10000, 10000, price)

\* initial_value = quantity * price with the unrounded quantity, stored as
\* round(initial_value, 2)
InitialValueOf(price) == RoundMulDiv(CAPITAL_PER_TRADE * 10000, price, price * 100)

NewEntry(row, day) ==
    [Date         |-> day,
     Symbol       |-> row.Symbol,
     List         |-> row.List,
     EntryPrice   |-> Round2(row.Price[1]),
     Quantity     |-> QuantityOf(row.Price[1]),
     InitialValue |-> InitialValueOf(row.Price[1]),
     CurrentPrice |-> Round2(row.Price[1]),
     CurrentValue |-> InitialValueOf(row.Price[1]),
     ReturnPct    |-> 0]

\* duplicate = portfolio[portfolio['Symbol'] == symbol]; not duplicate.empty
IsDuplicate(portfolio, symbol) ==
    /\ portfolio # <<>>
    /\ \E i \in DOMAIN portfolio : SymbolEq(portfolio[i].Symbol, symbol)

\* The row passes the price test of the loop.
PriceOk(row) == ~isna(row.Price) /\ ~(row.Price[1] <= 0)

RECURSIVE Targets(_)
\* targets = daily_scan_df[daily_scan_df['List'].isin(focus_lists)]
Targets(scan) ==
    IF scan = <<>> THEN <<>>
    ELSE (IF Head(scan).List \in focus_lists THEN <<Head(scan)>> ELSE <<>>)
         \o Targets(Tail(scan))

RECURSIVE NewEntries(_, _, _)
\* The loop over targets: new_entries, in row order.  The duplicate test
\* reads the frame loaded from the file, which the loop does not extend.
NewEntries(targets, portfolio, day) ==
    IF targets = <<>> THEN <<>>
    ELSE LET row == Head(targets)
             rest == NewEntries(Tail(targets), portfolio, day)
         IN  IF ~PriceOk(row) THEN rest
             ELSE IF IsDuplicate(portfolio, row.Symbol) THEN rest
             ELSE <<NewEntry(row, day)>> \o rest

\* The outcome of add_new_positions(scan) on day `day` with the
\* ledger directory holding fl (contents), pr (existing files) and cr
\* (unreadable files): whether it raised, the new content of the day's
\* file, whether the file was written, and the number of entries added.
add_new_positions(scan, day, fl, pr, cr) ==
    IF scan = <<>>
    THEN [added |-> 0, raised |-> FALSE, rows |-> fl[day], saved |-> FALSE]
    ELSE IF day \in pr /\ day \in cr
    THEN [added |-> 0, raised |-> TRUE, rows |-> fl[day], saved |-> FALSE]
    ELSE LET portfolio == IF day \in pr THEN read_csv(fl[day]) ELSE <<>>
             new_entries == NewEntries(Targets(scan), portfolio, day)
         IN  IF new_entries # <<>>
             THEN [added  |-> Len(new_entries),
                   raised |-> FALSE,
                   rows   |-> to_csv(portfolio \o new_entries),
                   saved  |-> TRUE]
             ELSE [added |-> 0, raised |-> FALSE, rows |-> fl[day],
                   saved |-> FALSE]

(***************************************************************************)
(* portfolio_manager.update_portfolio_values                               *)
(***************************************************************************)
\* A quote fetch ends with a price ("price", v # 0), with no price from
\* either source ("none"), or with an exception ("exc").
NoPrice == [kind |-> "none", v |-> 0]
FetchError == [kind |-> "exc", v |-> 0]
Quote(v) == [kind |-> "price", v |-> v]

\* yf.Ticker(symbol) ... last_price for one row; a missing symbol raises.
Fetch(quotes, symbol) ==
    IF symbol = NaNSym THEN FetchError ELSE quotes[symbol]

\* UpdateRow with a failed fetch clearing the stale values.
UpdateRowClearsOnFailure(row, q) ==
    IF q.kind = "price"
    THEN LET roi == MulDivMod(row.Quantity, q.v, row.InitialValue * 100)
         IN  [row EXCEPT
                !.CurrentPrice = Round2(q.v),
                !.CurrentValue = RoundMulDiv(row.Quantity, q.v, 1000000),
                !.ReturnPct = RoundHalfEven(roi[1] - 10000, roi[2],
                                            row.InitialValue * 100)]
    ELSE [row EXCEPT !.CurrentPrice = 0, !.CurrentValue = 0, !.ReturnPct = 0]

\* UpdateRow with Return % left as it was stored.
UpdateRowStaleReturn(row, q) ==
    IF q.kind = "price"
    THEN [row EXCEPT
            !.CurrentPrice = Round2(q.v),
            !.CurrentValue = RoundMulDiv(row.Quantity, q.v, 1000000)]
    ELSE row

\* Lines 129-134: the three columns written for a priced row.
UpdateRow(row, q) ==
    IF q.kind = "price"
    THEN LET roi == MulDivMod(row.Quantity, q.v, row.InitialValue * 100)
         IN  [row EXCEPT
                !.CurrentPrice = Round2(q.v),
                !.CurrentValue = RoundMulDiv(row.Quantity, q.v, 1000000),
                !.ReturnPct = RoundHalfEven(roi[1] - 10000, roi[2],
                                            row.InitialValue * 100)]
    ELSE row

\* The frame of one file after the loop over its rows.
UpdateFrame(portfolio, quotes) ==
    [i \in DOMAIN portfolio |->
        UpdateRow(portfolio[i], Fetch(quotes, portfolio[i].Symbol))]

\* updated: some row of the file got a price.
Updated(portfolio, quotes) ==
    \E i \in DOMAIN portfolio : Fetch(quotes, portfolio[i].Symbol).kind = "price"

\* The file is read and is not empty: its rows are processed.
Processed(d, fl, pr, cr) == d \in pr /\ d \notin cr /\ read_csv(fl[d]) # <<>>

\* The content of file d after update_portfolio_values.
UpdatedFile(d, fl, pr, cr, quotes) ==
    IF Processed(d, fl, pr, cr) /\ Updated(read_csv(fl[d]), quotes)
    THEN to_csv(UpdateFrame(read_csv(fl[d]), quotes))
    ELSE fl[d]

\* The rows <<d, i>> whose quote fetch gave no price (exception or none).
FailedFetches(fl, pr, cr, quotes) ==
    {<<d, i>> \in Dates \X (1..MaxEntries) :
        /\ Processed(d, fl, pr, cr)
        /\ i \in DOMAIN fl[d]
        /\ Fetch(quotes, read_csv(fl[d])[i].Symbol).kind # "price"}

\* SavedByUpdate with every processed file saved.
SavedByUpdateAlways(d, fl, pr, cr, quotes) == Processed(d, fl, pr, cr)

\* Whether file d is saved by update_portfolio_values.
SavedByUpdate(d, fl, pr, cr, quotes) ==
    Processed(d, fl, pr, cr) /\ Updated(read_csv(fl[d]), quotes)

RECURSIVE TotalCarried(_, _, _, _, _, _)
\* Total with the two counters kept from the previous call, not reset.
TotalCarried(d, fl, pr, cr, quotes, f) ==
    IF d = 0
    THEN (IF f = "InitialValue" THEN report.invested ELSE report.value)
    ELSE TotalCarried(d - 1, fl, pr, cr, quotes, f)
         + (IF Processed(d, fl, pr, cr)
            THEN SumOver(UpdateFrame(read_csv(fl[d]), quotes), f)
            ELSE 0)

RECURSIVE Total(_, _, _, _, _, _)
\* total_invested_all / total_value_all after the files 1..d, column f.
Total(d, fl, pr, cr, quotes, f) ==
    IF d = 0 THEN 0
    ELSE Total(d - 1, fl, pr, cr, quotes, f)
         + (IF Processed(d, fl, pr, cr)
            THEN SumOver(UpdateFrame(read_csv(fl[d]), quotes), f)
            ELSE 0)

\* total_ret as printed with two decimals.
TotalRet(invested, value) ==
    IF invested > 0
    THEN SignedRoundMulDiv(value - invested, 10000, invested)
    ELSE 0

NoReport == [printed |-> FALSE, invested |-> 0, value |-> 0, ret |-> 0]

\* The aggregate report of update_portfolio_values; none without files.
Report(fl, pr, cr, quotes) ==
    IF pr = {} THEN NoReport
    ELSE LET invested == Total(MaxDay, fl, pr, cr, quotes, "InitialValue")
             value == Total(MaxDay, fl, pr, cr, quotes, "CurrentValue")
         IN  [printed |-> TRUE, invested |-> invested, value |-> value,
              ret |-> TotalRet(invested, value)]


(***************************************************************************)
(* scanner_bot.get_stock_data.  Prices of a history are integers in one    *)
(* unit; a return is stored as round(ratio * 100, 2), here in 0.01 %.      *)
(***************************************************************************)
\* float('inf'): the quotient of a non-zero float64 by zero.
Inf == 2000000000

\* hist['Close'].iloc[-k]
Back(close, k) == close[Len(close) - k + 1]

\* current_price: ticker.info's price, or the last close when it is missing.
current_price(h) == IF h.price # 0 THEN h.price ELSE Back(h.Close, 1)

\* round((cp - d) / d * 100, 2).  The division is a float64 division: by
\* zero it gives +inf or -inf (cp # 0) and raises nothing.
ReturnOf(cp, d) ==
    IF d = 0 THEN (IF cp > 0 THEN Inf ELSE 0 - Inf)
    ELSE LET n == cp - d
             a == IF n >= 0 THEN n ELSE 0 - n
             b == IF d > 0 THEN d ELSE 0 - d
             r == RoundMulDiv(a, 10000, b)
         IN  IF (n >= 0) = (d > 0) THEN r ELSE 0 - r

weekly_return(h) ==
    IF Len(h.Close) >= 6 THEN ReturnOf(current_price(h), Back(h.Close, 6)) ELSE 0

monthly_return(h) ==
    IF Len(h.Close) >= 22 THEN ReturnOf(current_price(h), Back(h.Close, 22)) ELSE 0

ytd_return(h) ==
    IF h.Open # <<>> THEN ReturnOf(current_price(h), h.Open[1]) ELSE 0

year_return(h) ==
    IF Len(h.Close) > 0 THEN ReturnOf(current_price(h), h.Close[1]) ELSE 0

RECURSIVE gain(_, _)
\* 14 * gain.iloc[-1]: the sum of the positive deltas of the bars from..end.
gain(close, from) ==
    IF from > Len(close) THEN 0
    ELSE (IF close[from] > close[from - 1] THEN close[from] - close[from - 1] ELSE 0)
         + gain(close, from + 1)

RECURSIVE loss(_, _)
\* 14 * loss.iloc[-1]: the sum of the negated negative deltas.
loss(close, from) ==
    IF from > Len(close) THEN 0
    ELSE (IF close[from] < close[from - 1] THEN close[from - 1] - close[from] ELSE 0)
         + loss(close, from + 1)

\* rsi with a zero mean loss always resolved to 100.
rsi_zero_loss_is_100(close) ==
    IF Len(close) < 15 THEN <<>>
    ELSE LET g == gain(close, Len(close) - 13)
             l == loss(close, Len(close) - 13)
         IN  IF l = 0 THEN <<10000>> ELSE <<RoundMulDiv(10000, g, g + l)>>

\* 'RSI (14)': <<>> for 'N/A', else round(rsi, 2) with rsi = 100 - 100 /
\* (1 + gain / loss); gain / loss is inf for loss = 0 < gain (rsi = 100)
\* and NaN for loss = 0 = gain (rsi = 50 by line 178).
rsi(close) ==
    IF Len(close) < 15 THEN <<>>
    ELSE LET g == gain(close, Len(close) - 13)
             l == loss(close, Len(close) - 13)
         IN  IF l = 0 THEN (IF g > 0 THEN <<10000>> ELSE <<5000>>)
             ELSE <<RoundMulDiv(10000, g, g + l)>>

\* get_stock_data(ticker_symbol): <<>> for None, else <<data>>.
get_stock_data(ticker_symbol, h) ==
    IF h.raises \/ h.Close = <<>> THEN <<>>
    ELSE <<[Symbol  |-> ticker_symbol,
            Price   |-> <<current_price(h)>>,
            Monthly |-> monthly_return(h),
            Year52W |-> year_return(h),
            Weekly  |-> weekly_return(h),
            YTD     |-> ytd_return(h),
            RSI     |-> rsi(h.Close)]>>

(***************************************************************************)
(* scanner_bot.main: the three lists and the 'List' column.                *)
(***************************************************************************)
\* InSimmering with the lower edge exclusive.
InSimmeringExclusive(row) ==
    row.Year52W > 1000 /\ row.Year52W <= 2000 /\ row.Monthly > 500

\* InRockets with the 52-week threshold at 15 % instead of 50 %.
InRocketsLowThreshold(row) == row.Year52W > 1500 /\ row.Monthly > 1000

InSimmering(row) ==
    row.Year52W >= 1000 /\ row.Year52W <= 2000 /\ row.Monthly > 500

InRockets(row) == row.Year52W > 5000 /\ row.Monthly > 1000

InTurnarounds(row) == row.Year52W < 0 /\ row.Monthly > 1000

\* simmering.index, rockets.index, turnarounds.index: the rows of frame
\* selected by each list's filter.
simmering_index(frame) == {i \in DOMAIN frame : InSimmering(frame[i])}

rockets_index(frame) == {i \in DOMAIN frame : InRockets(frame[i])}

turnarounds_index(frame) == {i \in DOMAIN frame : InTurnarounds(frame[i])}

\* df['List'] after lines 285-293, for row i of frame.
ListOf(frame, i) ==
    LET simmering == simmering_index(frame)
        rockets == rockets_index(frame)
        turnarounds == turnarounds_index(frame)
        l0 == "Other"
        l1 == IF simmering # {} /\ i \in simmering THEN "Simmering Growth" ELSE l0
        l2 == IF rockets # {} /\ i \in rockets THEN "Rockets" ELSE l1
        l3 == IF turnarounds # {} /\ i \in turnarounds THEN "Turnarounds" ELSE l2
    IN  l3

\* df with its 'List' column.
Classify(frame) ==
    [i \in DOMAIN frame |->
        [Symbol |-> frame[i].Symbol, List |-> ListOf(frame, i),
         Price |-> frame[i].Price, Monthly |-> frame[i].Monthly,
         Year52W |-> frame[i].Year52W, Weekly |-> frame[i].Weekly,
         YTD |-> frame[i].YTD, RSI |-> frame[i].RSI]]

RECURSIVE ResultsData(_)
\* results_data: the rows of the symbols whose get_stock_data gave data.
\* An outcome is <<>> (None) or <<row>>.
ResultsData(outcomes) ==
    IF outcomes = <<>> THEN <<>>
    ELSE Head(outcomes) \o ResultsData(Tail(outcomes))

(***************************************************************************)
(* Inputs of the model.                                                    *)
(***************************************************************************)
Symbols == {"XYZ", "NA", "PNY"}

\* Frames handed to add_new_positions by a direct caller.
DfRows ==
    { [Symbol |-> "XYZ", List |-> "Rockets", Price |-> <<1000000>>],
      [Symbol |-> "XYZ", List |-> "Other", Price |-> <<1000000>>],
      [Symbol |-> "XYZ", List |-> "Rockets", Price |-> <<>>],
      [Symbol |-> "XYZ", List |-> "Rockets", Price |-> <<0>>],
      [Symbol |-> "XYZ", List |-> "Rockets", Price |-> <<-10000>>],
      [Symbol |-> "NA", List |-> "Turnarounds", Price |-> <<30000>>],
      [Symbol |-> "PNY", List |-> "Simmering Growth", Price |-> <<49>>] }

\* Outcomes of get_stock_data for one ticker of a scan.
StockData ==
    { <<>>,
      <<[Symbol |-> "XYZ", Price |-> <<1000000>>, Monthly |-> 1100,
         Year52W |-> 6000, Weekly |-> 0, YTD |-> 0, RSI |-> <<>>]>> }

\* Sequences over S of length at most n.
SeqUpTo(S, n) == UNION {[1..k -> S] : k \in 0..n}

\* Outcomes of the quote fetches of one update_portfolio_values call.
QuoteFns ==
    { [s \in Symbols |-> IF s = "XYZ" THEN x ELSE IF s = "PNY" THEN y ELSE Quote(31000)] :
        x \in {FetchError, NoPrice, Quote(1100000)}, y \in {NoPrice, Quote(100)} }

NoQuotes == [s \in Symbols |-> NoPrice]

\* No history (the ledger specification draws get_stock_data's outcomes).
NoHist == [Close |-> <<>>, Open |-> <<>>, price |-> 0, raises |-> FALSE]

\* n bars at 1000 with the first close, the close 22 bars back and the
\* close 6 bars back replaced.
FlatWith(n, first, c22, c6) ==
    [i \in 1..n |-> IF i = 1 THEN first
                    ELSE IF i = n - 21 THEN c22
                    ELSE IF i = n - 5 THEN c6
                    ELSE 1000]

\* n bars at 1000 whose last 14 deltas are k rises by up, then falls by down.
Zigzag(n, k, up, down) ==
    [i \in 1..n |->
        LET j == i - (n - 14)
        IN  IF j <= 0 THEN 1000
            ELSE 1000 + up * (IF j <= k THEN j ELSE k)
                      - down * (IF j <= k THEN 0 ELSE j - k)]

\* Histories served to get_stock_data: denominators that are positive, zero
\* or negative, with and without a price in ticker.info; mixes of rising
\* and falling bars around the 15-bar threshold of the RSI; a failing fetch.
\* The current price is never 0.
Hists ==
    { h \in
        { [Close |-> FlatWith(n, first, c22, c6), Open |-> o, price |-> p,
           raises |-> FALSE] :
             n \in 0..MaxBars, first \in {-1000, 0, 1000},
             c22 \in {-1000, 0, 1000}, c6 \in {-1000, 0, 1000},
             o \in {<<>>, <<-1000>>, <<0>>, <<1000>>}, p \in {0, 1100} } :
        h.Close = <<>> \/ current_price(h) # 0 }
    \cup
    { [Close |-> Zigzag(n, k, up, down), Open |-> <<1000>>, price |-> 1100,
       raises |-> FALSE] :
         n \in 14..MaxBars, k \in 0..14, up \in {0, 10}, down \in {0, 10, 30} }
    \cup
    { [Close |-> Zigzag(MaxBars, 7, 10, 10), Open |-> <<1000>>,
       price |-> 1100, raises |-> TRUE] }

\* The two runs, and a run that has not been started.
Procs == {"A", "B"}

IdleRun ==
    [pc |-> "idle", run |-> "add", frame |-> <<>>, quotes |-> NoQuotes,
     portfolio |-> <<>>, saved |-> <<>>]

NoRuns == [p \in Procs |-> IdleRun]

\* Frames of the concurrent calls of add_new_positions.
ConcurrentFrames ==
    { <<[Symbol |-> "XYZ", List |-> "Rockets", Price |-> <<1000000>>]>>,
      <<[Symbol |-> "PNY", List |-> "Simmering Growth", Price |-> <<49>>]>> }

(***************************************************************************)
(* State machine.                                                          *)
(***************************************************************************)
Idle(op) ==
    [op |-> op, exit |-> "done", addCalled |-> FALSE, addRaised |-> FALSE,
     added |-> 0, updateCalled |-> FALSE, written |-> {}, failed |-> {},
     steps |-> <<>>]

RECURSIVE Entries(_, _)
\* The number of stored rows over the files 1..d.
Entries(fl, d) == IF d = 0 THEN 0 ELSE Entries(fl, d - 1) + Len(fl[d])

Init ==
    /\ files = [d \in Dates |-> <<>>]
    /\ present = {}
    /\ corrupt = {}
    /\ today = 1
    /\ scans = {}
    /\ df = <<>>
    /\ report = NoReport
    /\ last = Idle("init")
    /\ hist = NoHist
    /\ runs = NoRuns

\* A direct call of add_new_positions(frame).
AddPositions(frame) ==
    \E r \in {add_new_positions(frame, today, files, present, corrupt)} :
    \E fl \in {[files EXCEPT ![today] = r.rows]} :
        /\ Entries(fl, MaxDay) <= MaxEntries
        /\ files' = fl
        /\ present' = IF r.saved THEN present \cup {today} ELSE present
        /\ df' = <<>>
        /\ report' = NoReport
        /\ last' = [Idle("add") EXCEPT
                      !.exit = IF r.raised THEN "error" ELSE "done",
                      !.addCalled = TRUE, !.addRaised = r.raised,
                      !.added = r.added,
                      !.written = IF r.saved THEN {today} ELSE {},
                      !.steps = <<"add">>]
        /\ UNCHANGED <<corrupt, today, scans, hist, runs>>

\* The "revalue only" entry point: update_portfolio_values().
RevalueAll(quotes) ==
    /\ files' = [d \in Dates |-> UpdatedFile(d, files, present, corrupt, quotes)]
    /\ df' = <<>>
    /\ report' = Report(files, present, corrupt, quotes)
    /\ last' = [Idle("update") EXCEPT
                  !.updateCalled = TRUE,
                  !.written = {d \in Dates :
                                 SavedByUpdate(d, files, present, corrupt, quotes)},
                  !.failed = FailedFetches(files, present, corrupt, quotes),
                  !.steps = <<"update">>]
    /\ UNCHANGED <<present, corrupt, today, scans, hist, runs>>

\* main() with the snapshot written at the end of the ledger stage.
main_steps_snapshot_last(module_found, raised) ==
    IF ~module_found THEN <<>>
    ELSE IF raised THEN <<"add">>
    ELSE <<"add", "update", "snapshot">>

\* Lines 295-311: the steps main() executes after the frame is labelled, in
\* order: df.to_csv, then inside the try add_new_positions and
\* update_portfolio_values, cut short by the ImportError or by an exception
\* of add_new_positions.
main_steps(module_found, raised) ==
    <<"snapshot">> \o
    (IF ~module_found THEN <<>>
     ELSE IF raised THEN <<"add">>
     ELSE <<"add", "update">>)

\* main() without its two early returns.
EarlyReturnNever(outcomes, results_data) == FALSE

\* main() returns before the snapshot and the ledger stage: `if not
\* tickers` (no ticker found) or `if not results_data` (no data retrieved).
EarlyReturn(outcomes, results_data) == outcomes = <<>> \/ results_data = <<>>

\* The "run scan" entry point: main().  outcomes holds, per ticker found by
\* get_day_gainers_safe, what get_stock_data returned; module_found is
\* whether `import portfolio_manager` succeeds; quotes are the quote fetches
\* of the revaluation.
ScanRun(outcomes, module_found, quotes) ==
    \E results_data \in {ResultsData(outcomes)} :
    \E frame \in {Classify(results_data)} :
    \E r \in {add_new_positions(frame, today, files, present, corrupt)} :
    \E fl \in {[files EXCEPT ![today] = r.rows]} :
    \E pr \in {IF r.saved THEN present \cup {today} ELSE present} :
    \E steps \in {main_steps(module_found, r.raised)} :
        IF EarlyReturn(outcomes, results_data)
        THEN /\ df' = <<>>
             /\ report' = NoReport
             /\ last' = [Idle("scan") EXCEPT
                           !.exit = IF outcomes = <<>> THEN "no tickers"
                                    ELSE "no data"]
             /\ UNCHANGED <<files, present, corrupt, today, scans, hist, runs>>
        ELSE /\ df' = frame
             /\ scans' = IF \E k \in DOMAIN steps : steps[k] = "snapshot"
                         THEN scans \cup {today} ELSE scans
             /\ UNCHANGED <<corrupt, today, hist, runs>>
             /\ IF ~module_found
                THEN /\ report' = NoReport
                     /\ last' = [Idle("scan") EXCEPT !.exit = "no module",
                                   !.steps = steps]
                     /\ UNCHANGED <<files, present>>
                ELSE IF r.raised
                THEN /\ report' = NoReport
                     /\ last' = [Idle("scan") EXCEPT
                                   !.exit = "error", !.addCalled = TRUE,
                                   !.addRaised = TRUE, !.steps = steps]
                     /\ UNCHANGED <<files, present>>
                ELSE /\ Entries(fl, MaxDay) <= MaxEntries
                     /\ files' = [d \in Dates |->
                                    UpdatedFile(d, fl, pr, corrupt, quotes)]
                     /\ present' = pr
                     /\ report' = Report(fl, pr, corrupt, quotes)
                     /\ last' = [Idle("scan") EXCEPT
                                   !.addCalled = TRUE, !.added = r.added,
                                   !.updateCalled = TRUE,
                                   !.written =
                                      (IF r.saved THEN {today} ELSE {}) \cup
                                      {d \in Dates :
                                         SavedByUpdate(d, fl, pr, corrupt, quotes)},
                                   !.failed =
                                      FailedFetches(fl, pr, corrupt, quotes),
                                   !.steps = steps]

\* The calendar moves on.
NextDay ==
    /\ today < MaxDay
    /\ today' = today + 1
    /\ df' = <<>>
    /\ report' = NoReport
    /\ last' = Idle("env")
    /\ UNCHANGED <<files, present, corrupt, scans, hist, runs>>

\* A ledger file is damaged outside the program and can no longer be read.
CorruptFile(d) ==
    /\ d \in present \ corrupt
    /\ corrupt' = corrupt \cup {d}
    /\ df' = <<>>
    /\ report' = NoReport
    /\ last' = Idle("env")
    /\ UNCHANGED <<files, present, today, scans, hist, runs>>

Next ==
    \/ \E frame \in SeqUpTo(DfRows, MaxRows) : AddPositions(frame)
    \/ \E quotes \in QuoteFns : RevalueAll(quotes)
    \/ \E outcomes \in SeqUpTo(StockData, MaxRows), module_found \in BOOLEAN,
          quotes \in QuoteFns : ScanRun(outcomes, module_found, quotes)
    \/ NextDay
    \/ \E d \in Dates : CorruptFile(d)

Spec == Init /\ [][Next]_vars

\* The first scan run, over metric values on and around every threshold of
\* the three lists, with the ledger module absent.
BoundaryRows ==
    { [Symbol |-> "XYZ", Price |-> <<1000000>>, Monthly |-> m, Year52W |-> y,
       Weekly |-> 0, YTD |-> 0, RSI |-> <<>>] :
        y \in {-1, 0, 1, 999, 1000, 1001, 1999, 2000, 2001, 4999, 5000, 5001},
        m \in {499, 500, 501, 999, 1000, 1001} }

BoundaryScans ==
    {<<<<a>>>> : a \in BoundaryRows} \cup
    {<<<<a>>, <<b>>>> : a \in BoundaryRows, b \in BoundaryRows}

NextClassify ==
    /\ scans = {}
    /\ \E outcomes \in BoundaryScans : ScanRun(outcomes, FALSE, NoQuotes)

SpecClassify == Init /\ [][NextClassify]_vars

\* The first scan run over one ticker whose data yfinance serves from
\* hist, with the ledger module absent.
InitMetrics ==
    /\ files = [d \in Dates |-> <<>>]
    /\ present = {}
    /\ corrupt = {}
    /\ today = 1
    /\ scans = {}
    /\ df = <<>>
    /\ report = NoReport
    /\ last = Idle("init")
    /\ hist \in Hists
    /\ runs = NoRuns

NextMetrics ==
    /\ last.op = "init"
    /\ ScanRun(<<get_stock_data("XYZ", hist)>>, FALSE, NoQuotes)

SpecMetrics == InitMetrics /\ [][NextMetrics]_vars

(***************************************************************************)
(* Two runs on one ledger.  The program takes no lock, so the runs          *)
(* interleave between the read of a ledger file and its write.             *)
(***************************************************************************)
\* The day's file holds nothing or one entry; run A is add_new_positions,
\* run B is add_new_positions or update_portfolio_values.
InitConcurrent ==
    /\ \E held \in {<<>>, <<NewEntry([Symbol |-> "XYZ", List |-> "Rockets",
                                       Price |-> <<1000000>>], 1)>>} :
          /\ files = [d \in Dates |-> IF d = 1 THEN held ELSE <<>>]
          /\ present = IF held = <<>> THEN {} ELSE {1}
    /\ corrupt = {}
    /\ today = 1
    /\ scans = {}
    /\ df = <<>>
    /\ report = NoReport
    /\ last = Idle("init")
    /\ hist = NoHist
    /\ \E fa \in ConcurrentFrames :
          \/ \E fb \in ConcurrentFrames :
                runs = [p \in Procs |->
                          [IdleRun EXCEPT !.pc = "start",
                                          !.frame = IF p = "A" THEN fa ELSE fb]]
          \/ \E quotes \in QuoteFns :
                runs = [p \in Procs |->
                          IF p = "A"
                          THEN [IdleRun EXCEPT !.pc = "start", !.frame = fa]
                          ELSE [IdleRun EXCEPT !.pc = "start", !.run = "update",
                                               !.quotes = quotes]]

\* The read of the day's file: lines 38-45 of add_new_positions, lines
\* 99-117 of update_portfolio_values (which returns when there is no file).
Load(p) ==
    /\ runs[p].pc = "start"
    /\ runs' = [runs EXCEPT ![p] =
          IF runs[p].run = "update" /\ today \notin present
          THEN [@ EXCEPT !.pc = "done"]
          ELSE [@ EXCEPT !.pc = "loaded",
                         !.portfolio = IF today \in present
                                       THEN read_csv(files[today]) ELSE <<>>]]
    /\ UNCHANGED <<files, present, corrupt, today, scans, df, report, last, hist>>

\* The rest of the call, from the frame loaded: the loop and the save of
\* lines 56-91 (add_new_positions) or of lines 119-140
\* (update_portfolio_values).
Save(p) ==
    /\ runs[p].pc = "loaded"
    /\ \E rows \in {IF runs[p].run = "add"
                   THEN NewEntries(Targets(runs[p].frame), runs[p].portfolio, today)
                   ELSE IF Updated(runs[p].portfolio, runs[p].quotes)
                   THEN to_csv(UpdateFrame(runs[p].portfolio, runs[p].quotes))
                   ELSE <<>>} :
          /\ files' = IF rows = <<>> THEN files
                      ELSE IF runs[p].run = "add"
                      THEN [files EXCEPT ![today] = to_csv(runs[p].portfolio \o rows)]
                      ELSE [files EXCEPT ![today] = rows]
          /\ present' = IF rows = <<>> THEN present ELSE present \cup {today}
          /\ runs' = [runs EXCEPT ![p] = [@ EXCEPT !.pc = "done", !.saved = rows]]
    /\ UNCHANGED <<corrupt, today, scans, df, report, last, hist>>

NextConcurrent == \E p \in Procs : Load(p) \/ Save(p)

SpecConcurrent == InitConcurrent /\ [][NextConcurrent]_vars


(***************************************************************************)
(* Properties.                                                             *)
(***************************************************************************)
\* The state of the ledger directory after add_new_positions(frame) on day.
AfterAdd(frame, day, fl, pr, cr) ==
    LET r == add_new_positions(frame, day, fl, pr, cr)
    IN  [files |-> [fl EXCEPT ![day] = r.rows],
         present |-> IF r.saved THEN pr \cup {day} ELSE pr,
         added |-> r.added, raised |-> r.raised, saved |-> r.saved]

\* C1: in every reachable state each day's ledger file holds at most one
\* entry per symbol, whatever frames add_new_positions was given (a frame
\* may name the same symbol twice).
C1_UniqueSymbolPerDay ==
    \A d \in Dates : \A i, j \in DOMAIN files[d] :
        files[d][i].Symbol = files[d][j].Symbol => i = j

\* C2: add_new_positions is idempotent: after a call with a frame, a second
\* call on the same day with the same frame adds no entry, does not write
\* the file and leaves the day's file as the first call left it.
C2_AddIdempotent ==
    [][\A frame \in SeqUpTo(DfRows, MaxRows) :
          (AddPositions(frame) /\ ~last'.addRaised) =>
             LET second == AfterAdd(frame, today', files', present', corrupt')
             IN  /\ second.added = 0
                 /\ ~second.saved
                 /\ second.files[today'] = files'[today']]_vars

\* The columns of a stored row that revaluation writes.
Valuation(row) == <<row.CurrentPrice, row.CurrentValue, row.ReturnPct>>

\* The columns that identify a row as read back from its file.
Identity(row) ==
    <<row.Date, read_csv_symbol(row.Symbol), row.List, row.EntryPrice,
      row.Quantity, row.InitialValue>>

\* C3: update_portfolio_values never removes, adds or reorders the rows of
\* a ledger file; a row whose quote fetch fails (exception or no price)
\* keeps its Current Price, Current Value and Return %, and the rows of the
\* same file whose fetch gives a price are still revalued.
C3_RevalueKeepsEntries ==
    [][\A quotes \in QuoteFns :
          (last'.op = "update" /\ RevalueAll(quotes)) =>
             \A d \in Dates :
                /\ Len(files'[d]) = Len(files[d])
                /\ \A i \in DOMAIN files[d] :
                      LET q == Fetch(quotes, read_csv_symbol(files[d][i].Symbol))
                      IN  /\ Identity(files'[d][i]) = Identity(files[d][i])
                          /\ q.kind # "price" =>
                                Valuation(files'[d][i]) = Valuation(files[d][i])
                          /\ (q.kind = "price" /\ d \in present \ corrupt) =>
                                files'[d][i].CurrentPrice = Round2(q.v)]_vars

\* C3 witness: a revaluation in which one row's fetch failed and the row
\* still shows the price of an earlier revaluation, while another row of the
\* same file was revalued.
C3_Witness ==
    /\ last.op = "update"
    /\ \E d \in Dates : \E i, j \in DOMAIN files[d] :
          /\ <<d, i>> \in last.failed
          /\ files[d][i].CurrentPrice # files[d][i].EntryPrice
          /\ <<d, j>> \notin last.failed
          /\ files[d][j].CurrentPrice # files[d][j].EntryPrice
          /\ d \in last.written

\* The columns of an entry that are fixed at creation.
Frozen(row) ==
    <<row.Date, row.Symbol, row.List, row.EntryPrice, row.Quantity,
      row.InitialValue>>

\* C4: no step changes the Date, Symbol, List, Entry Price, Quantity or
\* Initial Value of an entry that is already stored; revaluation writes
\* only Current Price, Current Value and Return %.
C4_FrozenColumns ==
    [][\A d \in Dates : \A i \in DOMAIN files[d] :
          /\ i \in DOMAIN files'[d]
          /\ Frozen(files'[d][i]) = Frozen(files[d][i])]_vars

\* The sum of column f over the rows of the readable ledger files.
RECURSIVE SumReadable(_, _)
SumReadable(d, f) ==
    IF d = 0 THEN 0
    ELSE SumReadable(d - 1, f)
         + (IF d \in present \ corrupt THEN SumOver(files[d], f) ELSE 0)

\* C5: an unreadable ledger file never keeps the readable ones from being
\* revalued: a revalue-only run, and a scan run that reaches the ledger
\* stage, revalues every readable file and reports the totals of exactly
\* the readable files, also when the unreadable file is today's.
C5_CorruptFileSkipped ==
    ( /\ last.op \in {"scan", "update"}
      /\ last.op = "scan" => last.addCalled
      /\ present \ corrupt # {} )
    => /\ last.updateCalled
       /\ report.printed
       /\ report.invested = SumReadable(MaxDay, "InitialValue")
       /\ report.value = SumReadable(MaxDay, "CurrentValue")

\* C6: the totals printed by update_portfolio_values are the sums of
\* Initial Value and of Current Value over the rows of all readable ledger
\* files as they stand at the end of the call, counted from zero in every
\* call, and the printed return is (value - invested) / invested * 100
\* when invested > 0 and 0 otherwise.
C6_TotalsAreSums ==
    (last.updateCalled /\ report.printed) =>
       LET invested == SumReadable(MaxDay, "InitialValue")
           value == SumReadable(MaxDay, "CurrentValue")
       IN  /\ report.invested = invested
           /\ report.value = value
           /\ report.ret = IF invested > 0
                           THEN SignedRoundMulDiv(value - invested, 10000, invested)
                           ELSE 0

\* C6 witness: the second of two successive revaluations, over two
\* readable files whose values have moved.
C6_Witness ==
    /\ last.op = "update"
    /\ report.printed
    /\ report.invested > 0
    /\ report.value # report.invested
    /\ report.ret # 0
    /\ \A d \in Dates : d \in present \ corrupt /\ files[d] # <<>>
    /\ last.written = {}

\* C6 witness: every ledger file is unreadable, nothing is invested and the
\* printed return is 0.
C6_WitnessZero ==
    /\ last.updateCalled
    /\ report.printed
    /\ report.invested = 0
    /\ report.ret = 0
    /\ present # {}

\* C7: every scan run whose ticker list is not empty (and that finds the
\* ledger module) executes update_portfolio_values before it ends, however
\* many get_stock_data calls fail and whether or not add_new_positions
\* added anything or raised.
C7_ScanAlwaysRevalues ==
    (last.op = "scan" /\ last.exit \notin {"no tickers", "no module"})
    => last.updateCalled

\* C10: every stored entry has a List among the three focus lists and an
\* Entry Price > 0.
C10_FocusListAndPositivePrice ==
    \A d \in Dates : \A i \in DOMAIN files[d] :
        /\ files[d][i].List \in focus_lists
        /\ files[d][i].EntryPrice > 0


\* The label of a row by the highest-numbered rule it satisfies.
Expected(y, m) ==
    IF y < 0 /\ m > 1000 THEN "Turnarounds"
    ELSE IF y > 5000 /\ m > 1000 THEN "Rockets"
    ELSE IF y >= 1000 /\ y <= 2000 /\ m > 500 THEN "Simmering Growth"
    ELSE "Other"

\* C8: the List written for a row depends only on its 52W Ret % and Monthly
\* Ret %: it is the label of the last of the rules 1 (10 <= y <= 20, m > 5),
\* 2 (y > 50, m > 10), 3 (y < 0, m > 10) that the row satisfies, 'Other'
\* when it satisfies none; y = 10 and y = 20 are inside rule 1, and y = 50,
\* y = 0, m = 5 and m = 10 are outside their rules.
C8_LabelIsFunctionOfReturns ==
    \A i \in DOMAIN df :
        /\ df[i].List = Expected(df[i].Year52W, df[i].Monthly)
        /\ (df[i].Year52W \in {1000, 2000} /\ df[i].Monthly = 501)
              => df[i].List = "Simmering Growth"
        /\ df[i].Monthly \in {500, 499} => df[i].List = "Other"
        /\ df[i].Year52W \in {0, 5000} => df[i].List = "Other"
        /\ (df[i].Monthly = 1000 /\ df[i].Year52W \notin 1000..2000)
              => df[i].List = "Other"

\* C8 witness: a scan with a row on the inclusive edge of rule 1 and a row
\* on the exclusive edge of rule 2.
C8_Witness ==
    /\ last.op = "scan"
    /\ \E i, j \in DOMAIN df :
          /\ df[i].Year52W = 1000 /\ df[i].Monthly = 501
          /\ df[i].List = "Simmering Growth"
          /\ df[j].Year52W = 5000 /\ df[j].Monthly = 1001
          /\ df[j].List = "Other"

\* The number of the three rules a row satisfies.
RulesMatched(row) ==
    (IF InSimmering(row) THEN 1 ELSE 0) + (IF InRockets(row) THEN 1 ELSE 0)
    + (IF InTurnarounds(row) THEN 1 ELSE 0)

\* The label of a row when the rules are applied in the opposite order.
ReverseOrderLabel(row) ==
    IF InSimmering(row) THEN "Simmering Growth"
    ELSE IF InRockets(row) THEN "Rockets"
    ELSE IF InTurnarounds(row) THEN "Turnarounds"
    ELSE "Other"

EntryArithmetic(row) ==
    /\ row.EntryPrice > 0
    /\ row.Quantity = RoundMulDiv(CAPITAL_PER_TRADE * 10000, 100, row.EntryPrice)
    /\ row.InitialValue = RoundMulDiv(row.Quantity, row.EntryPrice, 10000)
    /\ row.CurrentPrice = row.EntryPrice
    /\ row.CurrentValue = row.InitialValue
    /\ row.ReturnPct = 0

\* C11: every entry, as add_new_positions stores it, has Quantity =
\* CAPITAL_PER_TRADE / Entry Price, Initial Value = Quantity * Entry Price,
\* Current Price = Entry Price, Current Value = Initial Value and
\* Return % = 0; a scan price of 100 gives Quantity 10.0 and Initial Value
\* 1000.00.
C11_EntryArithmetic ==
    last.op = "add" =>
       \A i \in DOMAIN files[today] :
          i > Len(files[today]) - last.added => EntryArithmetic(files[today][i])

\* (current_val - Initial Value) / Initial Value * 100 at two decimals,
\* with current_val = Quantity * v, from the stored Quantity and Initial
\* Value of row.
ExpectedReturn(row, v) ==
    LET ratio == MulDivMod(row.Quantity, v, row.InitialValue * 100)
    IN  RoundHalfEven(ratio[1], ratio[2], row.InitialValue * 100) - 10000

\* C12: after update_portfolio_values fetched price q for an entry of a
\* readable file, the stored entry has Current Price = q, Current Value =
\* Quantity * q and Return % = (Current Value - Initial Value) / Initial
\* Value * 100, from the Quantity and Initial Value stored before the call;
\* Quantity 10, Initial Value 1000 and q = 110 give Current Value 1100.00
\* and Return % 10.00.
C12_RevalueArithmetic ==
    [][\A quotes \in QuoteFns :
          (last'.op = "update" /\ RevalueAll(quotes)) =>
             \A d \in present \ corrupt : \A i \in DOMAIN files[d] :
                LET old == files[d][i]
                    new == files'[d][i]
                    q == Fetch(quotes, read_csv_symbol(old.Symbol))
                IN  q.kind = "price" =>
                       /\ new.CurrentPrice = Round2(q.v)
                       /\ new.CurrentValue = RoundMulDiv(old.Quantity, q.v, 1000000)
                       /\ new.ReturnPct = ExpectedReturn(old, q.v)
                       /\ (old.Quantity = 100000 /\ old.InitialValue = 100000
                             /\ q.v = 1100000)
                          => (new.CurrentValue = 110000 /\ new.ReturnPct = 1000)]_vars

\* C12 witness: a revaluation stored the entry of 10 shares bought for
\* 1000.00 at the fetched price 110: value 1100.00, return 10.00 %.
C12_Witness ==
    /\ last.op = "update"
    /\ \E d \in last.written : \E i \in DOMAIN files[d] :
          /\ <<d, i>> \notin last.failed
          /\ files[d][i].Quantity = 100000
          /\ files[d][i].InitialValue = 100000
          /\ files[d][i].CurrentPrice = 11000
          /\ files[d][i].CurrentValue = 110000
          /\ files[d][i].ReturnPct = 1000

\* C13: a scan run whose ticker discovery returns nothing has no ledger
\* side effect: no ledger file is created, appended to, revalued or
\* rewritten, add_new_positions and update_portfolio_values are not called,
\* and no snapshot is written.
C13_EmptyTickersNoSideEffects ==
    [][\A module_found \in BOOLEAN, quotes \in QuoteFns :
          (last'.op = "scan" /\ ScanRun(<<>>, module_found, quotes)) =>
             /\ files' = files
             /\ present' = present
             /\ scans' = scans
             /\ ~last'.addCalled
             /\ ~last'.updateCalled
             /\ last'.added = 0
             /\ last'.written = {}
             /\ ~report'.printed]_vars

\* C13 witness: a scan run found no ticker while the ledger holds a
\* readable file with an entry that has never been revalued.
C13_Witness ==
    /\ last.op = "scan"
    /\ last.exit = "no tickers"
    /\ today \notin scans
    /\ \E d \in present \ corrupt : \E i \in DOMAIN files[d] :
          /\ files[d][i].Symbol = "XYZ"
          /\ files[d][i].ReturnPct = 0

\* s is an initial part of t.
IsPrefix(s, t) == Len(s) <= Len(t) /\ \A k \in DOMAIN s : s[k] = t[k]

\* C14: a scan run that gets past data retrieval executes its steps in the
\* order snapshot, add_new_positions, update_portfolio_values; the snapshot
\* is the first step, so it exists, holding the labelled frame, also when
\* the ledger module is missing (no ledger step) or add_new_positions
\* raises (no revaluation).
C14_SnapshotBeforeLedger ==
    (last.op = "scan" /\ last.exit \in {"no module", "error", "done"}) =>
       /\ last.steps # <<>>
       /\ last.steps[1] = "snapshot"
       /\ IsPrefix(last.steps, <<"snapshot", "add", "update">>)
       /\ today \in scans
       /\ df # <<>>
       /\ df = Classify(df)
       /\ last.exit = "no module" => last.steps = <<"snapshot">>
       /\ last.exit = "error" => last.steps = <<"snapshot", "add">>
       /\ last.exit = "done" => last.steps = <<"snapshot", "add", "update">>
       /\ last.addCalled <=> Len(last.steps) >= 2
       /\ last.updateCalled <=> Len(last.steps) >= 3

\* C14 witness: add_new_positions raised in a scan run (today's ledger file
\* is unreadable) and the day's snapshot exists.
C14_Witness ==
    /\ last.op = "scan"
    /\ last.exit = "error"
    /\ last.addRaised
    /\ last.steps = <<"snapshot", "add">>
    /\ today \in scans
    /\ today \in corrupt

\* C15: when the denominator of a return window (the close 6 bars back, the
\* close 22 bars back, the first close, the year's first open) is zero or
\* negative, get_stock_data still returns a row for the symbol and that
\* window's return in the row is 0.
C15_ZeroDenominatorGuard ==
    (last.op = "scan" /\ ~hist.raises /\ hist.Close # <<>>) =>
       /\ Len(df) = 1
       /\ (Len(hist.Close) >= 6 /\ Back(hist.Close, 6) <= 0) => df[1].Weekly = 0
       /\ (Len(hist.Close) >= 22 /\ Back(hist.Close, 22) <= 0) => df[1].Monthly = 0
       /\ (hist.Open # <<>> /\ hist.Open[1] <= 0) => df[1].YTD = 0
       /\ hist.Close[1] <= 0 => df[1].Year52W = 0

\* C16: the RSI (14) of a row is 'N/A' exactly when the history has fewer
\* than 15 bars; otherwise it is a number in [0, 100], the rounded value of
\* 100 * G / (G + L) for the mean gain G and mean loss L of the last 14
\* bars, and with L = 0 it is 100 when G > 0 and 50 when G = 0.
C16_RsiRangeAndPolicy ==
    (last.op = "scan" /\ df # <<>>) =>
       LET close == hist.Close
           G == gain(close, Len(close) - 13)
           L == loss(close, Len(close) - 13)
           v == df[1].RSI
       IN  /\ v = <<>> <=> Len(close) < 15
           /\ Len(close) >= 15 =>
                 /\ v[1] >= 0 /\ v[1] <= 10000
                 /\ (L = 0 /\ G > 0) => v[1] = 10000
                 /\ (L = 0 /\ G = 0) => v[1] = 5000
                 /\ L > 0 =>
                       LET e == v[1] * (G + L) - 10000 * G
                       IN  2 * e <= G + L /\ 0 - 2 * e <= G + L

\* C16 witness: a scan of a 15-bar history with rises and falls whose RSI
\* lies strictly between 0 and 100.
C16_Witness ==
    /\ last.op = "scan"
    /\ df # <<>>
    /\ Len(hist.Close) = 15
    /\ gain(hist.Close, 2) > 0
    /\ loss(hist.Close, 2) > gain(hist.Close, 2)
    /\ df[1].RSI # <<>>
    /\ df[1].RSI[1] > 0 /\ df[1].RSI[1] < 5000

\* C17: ledger files are written only when dirty: add_new_positions writes
\* the day's file only when it added an entry, so no existing ledger file
\* is empty; update_portfolio_values rewrites a file only when the
\* valuation of at least one of its entries changed, so a file whose
\* fetched prices all equal the stored ones is not rewritten.
C17_WritesOnlyWhenDirty ==
    [][/\ last'.op = "add" =>
             (today \in last'.written =>
                (last'.added >= 1 /\ Len(files'[today]) > Len(files[today])))
       /\ \A d \in present' : files'[d] # <<>>
       /\ last'.op = "update" =>
             \A d \in last'.written :
                \E i \in DOMAIN files[d] :
                   Valuation(files'[d][i]) # Valuation(files[d][i])]_vars

\* C17 as the code has it: add_new_positions writes the day's file only
\* when it added an entry, so no existing ledger file is empty;
\* update_portfolio_values rewrites a file only when the fetch of at least
\* one of its entries gave a price (whether or not the price differs from
\* the stored one), so a file whose fetches all failed is not rewritten.
C17_WritesOnlyWhenUpdated ==
    [][/\ last'.op = "add" =>
             (today \in last'.written =>
                (last'.added >= 1 /\ Len(files'[today]) > Len(files[today])))
       /\ \A d \in present' : files'[d] # <<>>
       /\ last'.op = "update" =>
             /\ \A d \in last'.written :
                   \E i \in DOMAIN files[d] : <<d, i>> \notin last'.failed
             /\ \A d \in Dates \ last'.written : files'[d] = files[d]]_vars

\* C17 witness: a revaluation in which every fetch for the entries of one
\* readable file failed and the file was not rewritten, while another file
\* was rewritten.
C17_Witness ==
    /\ last.op = "update"
    /\ \E d \in present \ corrupt :
          /\ files[d] # <<>>
          /\ d \notin last.written
          /\ \A i \in DOMAIN files[d] : <<d, i>> \in last.failed
    /\ last.written # {}

\* a is b with some elements left out.
RECURSIVE IsSubsequence(_, _)
IsSubsequence(a, b) ==
    IF a = <<>> THEN TRUE
    ELSE IF b = <<>> THEN FALSE
    ELSE IF Head(a) = Head(b) THEN IsSubsequence(Tail(a), Tail(b))
    ELSE IsSubsequence(a, Tail(b))

\* C18: add_new_positions only appends: the entries already in the day's
\* file stay as they are stored, at their positions; the new entries follow
\* them in the order of the scan rows; the files of other dates are neither
\* changed nor needed (an unreadable file of another date does not make the
\* call fail).
C18_AppendOnly ==
    [][\A frame \in SeqUpTo(DfRows, MaxRows) :
          (last'.op = "add" /\ AddPositions(frame)) =>
             /\ \A d \in Dates \ {today} : files'[d] = files[d]
             /\ present' \subseteq present \cup {today}
             /\ last'.addRaised => today \in corrupt
             /\ Len(files'[today]) = Len(files[today]) + last'.added
             /\ \A i \in DOMAIN files[today] : files'[today][i] = files[today][i]
             /\ IsSubsequence(
                   [k \in 1..last'.added |->
                       files'[today][Len(files[today]) + k].Symbol],
                   [k \in DOMAIN frame |-> frame[k].Symbol])]_vars

\* C19: when two runs on the same ledger file have both finished, however
\* their reads and writes interleaved, no update is lost: every entry a run
\* added is in the file, every row a revaluation saved is in the file with
\* the valuation it saved, and no symbol is stored twice.
C19_NoLostUpdate ==
    (\A p \in Procs : runs[p].pc = "done") =>
       /\ \A p \in Procs : \A k \in DOMAIN runs[p].saved :
             \E i \in DOMAIN files[today] :
                /\ files[today][i].Symbol = to_csv_symbol(runs[p].saved[k].Symbol)
                /\ runs[p].run = "update" =>
                      Valuation(files[today][i]) = Valuation(runs[p].saved[k])
       /\ \A i, j \in DOMAIN files[today] :
             files[today][i].Symbol = files[today][j].Symbol => i = j

====
